---- MODULE Spec2Model ----
(***************************************************************************)
(* A model of celerybeatredis/task.py: the PeriodicTask entity, its        *)
(* schedule holder, validation and merge, and the save / delete / list     *)
(* protocol against the key-value backend (rdb).                           *)
(*                                                                         *)
(* Python values are tagged tuples: <<"None">>, <<"bool", b>>,             *)
(* <<"int", n>>, <<"str", tokens>>, <<"tuple", seq>>, <<"list", seq>>,     *)
(* <<"dict", f>>, <<"datetime", n>>, <<"Interval", f>>, <<"Crontab", f>>,  *)
(* where f is a function from attribute names to Python values (an         *)
(* object's or a mapping's __dict__).  A Python string is a sequence of    *)
(* tokens, so that 'deleted:' + key and key_prefix + '*' are computed; a   *)
(* string that is sliced (a period) has its last character as a token, a   *)
(* blank is the token " ".                                                 *)
(* A stored text is <<"json", j>> (well-formed JSON denoting j) or         *)
(* <<"text", tokens>> (anything else); an absent key holds Nil.            *)
(***************************************************************************)
EXTENDS Integers, Sequences, FiniteSets, TLC

VARIABLES
    ent,     \* ent[i]: the __dict__ of in-memory PeriodicTask i
    res,     \* outcome of the last in-memory call (clean, from_dict, set_schedule)
    rdb,     \* the key-value backend: key -> stored text, or Nil
    proc     \* proc[p]: the position, locals and result of client p's current call

vars == <<ent, res, rdb, proc>>

-----------------------------------------------------------------------------
(* Bounds *)

\* calls each client makes in a run
MaxOps == 2
\* in-memory calls (clean, from_dict, set_schedule) in a run
MaxCalls == 2
\* largest total_run_count a constructed task starts with
MaxRun == 1
\* largest every of an Interval whose display string is taken
MaxEvery == 5

-----------------------------------------------------------------------------
(* Python values *)

None == <<"None">>
PyBool(b) == <<"bool", b>>
PyInt(n) == <<"int", n>>
PyStr(toks) == <<"str", toks>>
PyTuple(s) == <<"tuple", s>>
PyList(s) == <<"list", s>>
PyDict(f) == <<"dict", f>>
PyDatetime(n) == <<"datetime", n>>

EmptyMap == [k \in {} |-> None]

\* bool(v): None, False, 0 and empty containers are falsy, objects are truthy
Truthy(v) ==
    CASE v[1] = "None" -> FALSE
      [] v[1] = "bool" -> v[2]
      [] v[1] = "int" -> v[2] # 0
      [] v[1] \in {"str", "tuple", "list"} -> Len(v[2]) > 0
      [] v[1] = "dict" -> DOMAIN v[2] # {}
      [] OTHER -> TRUE

\* a or b
PyOr(a, b) == IF Truthy(a) THEN a ELSE b

\* dict.update: d1 with every item of d2 set
DictUpdate(d1, d2) ==
    [k \in DOMAIN d1 \cup DOMAIN d2 |-> IF k \in DOMAIN d2 THEN d2[k] ELSE d1[k]]

\* dict without key k (del d[k], d.pop(k) on a present key)
DictWithout(d, k) == [x \in DOMAIN d \ {k} |-> d[x]]

DictSet(d, k, v) == [x \in DOMAIN d \cup {k} |-> IF x = k THEN v ELSE d[x]]

-----------------------------------------------------------------------------
(* Interval and Crontab *)

IntervalParams == {"every", "period"}
CrontabParams == {"minute", "hour", "day_of_week", "day_of_month", "month_of_year"}

\* Interval(every, period='seconds')
Interval(every, period) ==
    <<"Interval", [k \in IntervalParams |-> IF k = "every" THEN every ELSE period]>>

\* Crontab(minute=0, hour=0, day_of_week=None, day_of_month=None, month_of_year=None)
Crontab(minute, hour, day_of_week, day_of_month, month_of_year) ==
    <<"Crontab", [k \in CrontabParams |->
        CASE k = "minute" -> minute
          [] k = "hour" -> hour
          [] k = "day_of_week" -> PyOr(day_of_week, PyStr(<<"*">>))
          [] k = "day_of_month" -> PyOr(day_of_month, PyStr(<<"*">>))
          [] k = "month_of_year" -> PyOr(month_of_year, PyStr(<<"*">>))]>>

\* s(**m) raises TypeError when m is no mapping, names a parameter the
\* constructor does not have, or lacks a parameter without default (every)
IntervalAccepts(m) ==
    m[1] = "dict" /\ DOMAIN m[2] \subseteq IntervalParams /\ "every" \in DOMAIN m[2]

CrontabAccepts(m) == m[1] = "dict" /\ DOMAIN m[2] \subseteq CrontabParams

Arg(m, k, default) == IF k \in DOMAIN m[2] THEN m[2][k] ELSE default

IntervalFrom(m) == Interval(m[2]["every"], Arg(m, "period", PyStr(<<"second", "s">>)))

CrontabFrom(m) ==
    Crontab(Arg(m, "minute", PyInt(0)), Arg(m, "hour", PyInt(0)),
            Arg(m, "day_of_week", None), Arg(m, "day_of_month", None),
            Arg(m, "month_of_year", None))

IsSchedule(v) == v[1] \in {"Interval", "Crontab"}

\* str(v), the text '{0}'.format(v) inserts
Str(v) ==
    CASE v[1] = "str" -> v[2]
      [] v[1] = "int" -> <<ToString(v[2])>>
      [] v[1] = "bool" -> IF v[2] THEN <<"True">> ELSE <<"False">>
      [] v[1] = "None" -> <<"None">>

\* s.replace(' ', '')
NoBlanks(s) == SelectSeq(s, LAMBDA t : t # " ")

\* Interval.period_singular: period[:-1]
period_singular(v) == SubSeq(v[2]["period"][2], 1, Len(v[2]["period"][2]) - 1)

\* Interval.__unicode__ without the singular phrasing
IntervalUnicodeNoSingular(v) ==
    PyStr(<<"every ">> \o Str(v[2]["every"]) \o <<" ">> \o v[2]["period"][2])

\* Interval.__unicode__; True == 1 in Python
IntervalUnicode(v) ==
    IF v[2]["every"] \in {PyInt(1), PyBool(TRUE)}
    THEN PyStr(<<"every ">> \o period_singular(v))
    ELSE PyStr(<<"every ">> \o Str(v[2]["every"]) \o <<" ">> \o v[2]["period"][2])

\* rfield = lambda f: f and str(f).replace(' ', '') or '*'
rfield(f) ==
    IF Truthy(f) /\ NoBlanks(Str(f)) # <<>> THEN NoBlanks(Str(f)) ELSE <<"*">>

\* Crontab.__unicode__
CrontabUnicode(v) ==
    PyStr(rfield(v[2]["minute"]) \o <<" ">> \o rfield(v[2]["hour"]) \o <<" ">>
          \o rfield(v[2]["day_of_week"]) \o <<" ">> \o rfield(v[2]["day_of_month"]) \o <<" ">>
          \o rfield(v[2]["month_of_year"]) \o <<" (m/h/d/dM/MY)">>)

-----------------------------------------------------------------------------
(* PeriodicTask: construction and the schedule holder *)

\* bytes_to_str of a str is that str (keys are str throughout)
BytesToStr(s) == s

\* class attributes, read when the instance __dict__ lacks the name
ClassAttrs ==
    [k \in {"name", "task", "data", "args", "kwargs", "options", "enabled",
            "last_run_at", "total_run_count"} |->
        CASE k = "args" -> PyList(<<>>)
          [] k \in {"kwargs", "options"} -> PyDict(EmptyMap)
          [] k = "enabled" -> PyBool(TRUE)
          [] k = "total_run_count" -> PyInt(0)
          [] OTHER -> None]

\* getattr(self, k) can be evaluated
HasAttr(d, k) == k \in DOMAIN d \/ k \in DOMAIN ClassAttrs

\* self.k
GetAttr(d, k) == IF k \in DOMAIN d THEN d[k] ELSE ClassAttrs[k]

\* set_schedule whose except clause resets schedule_inst: only the last
\* constructor tried, Crontab, can supply the schedule
ScheduleInstLastWins(schedule) ==
    IF IsSchedule(schedule) THEN schedule
    ELSE IF CrontabAccepts(schedule) THEN CrontabFrom(schedule) ELSE None

\* set_schedule: the value self.data receives, None when it raises
ScheduleInst(schedule) ==
    IF IsSchedule(schedule) THEN schedule
    ELSE LET afterInterval == IF IntervalAccepts(schedule) THEN IntervalFrom(schedule) ELSE None
             afterCrontab == IF CrontabAccepts(schedule) THEN CrontabFrom(schedule) ELSE afterInterval
         IN  afterCrontab

SetScheduleRaises(schedule) == ScheduleInst(schedule) = None

set_schedule(d, schedule) == DictSet(d, "data", ScheduleInst(schedule))

\* __init__ raises exactly when set_schedule does
InitRaises(a) == SetScheduleRaises(a.schedule)

\* the __dict__ __init__ leaves; a.key is the value of the name `key` line 112 reads
PeriodicTask(a) ==
    LET named == [k \in {"task", "enabled", "data", "args", "kwargs", "options",
                         "last_run_at", "total_run_count", "name", "key",
                         "delete_key", "running"} |->
            CASE k = "task" -> a.task
              [] k = "enabled" -> a.enabled
              [] k = "data" -> ScheduleInst(a.schedule)
              [] k = "args" -> a.args
              [] k = "kwargs" -> PyOr(a.kwargs, PyDict(EmptyMap))
              [] k = "options" -> PyOr(a.options, PyDict(EmptyMap))
              [] k = "last_run_at" -> a.last_run_at
              [] k = "total_run_count" -> a.total_run_count
              [] k = "name" -> a.name
              [] k = "key" -> a.key
              [] k = "delete_key" -> PyStr(<<"deleted:">> \o BytesToStr(a.key)[2])
              [] k = "running" -> PyBool(FALSE)]
    IN  DictUpdate(named, a.extrakwargs)

-----------------------------------------------------------------------------
(* PeriodicTask.clean and PeriodicTask.from_dict *)

\* clean(): "ok" when it returns, else the exception it raises.  self.interval
\* and self.crontab are instance attributes only when the caller passed them
\* as extra keyword arguments; reading a missing one raises AttributeError.
clean(d) ==
    IF ~HasAttr(d, "interval") THEN "AttributeError"
    ELSE IF Truthy(GetAttr(d, "interval")) THEN
        IF ~HasAttr(d, "crontab") THEN "AttributeError"
        ELSE IF Truthy(GetAttr(d, "crontab")) THEN "ValidationError"
        ELSE "ok"
    ELSE
        IF ~HasAttr(d, "crontab") THEN "AttributeError"
        ELSE IF Truthy(GetAttr(d, "crontab")) THEN "ok"
        ELSE "ValidationError"

\* otherdict = other.__dict__ is the source's own dictionary, not a copy
OtherDict(e, other) == e[other]

\* The body of from_dict with self = task i and other = task j: the entities
\* after the call and its outcome.  Each pop acts on other's own __dict__.
from_dict(e, self, other) ==
    LET otherdict == OtherDict(e, other)
    IN  IF "last_run_at" \notin DOMAIN otherdict
        THEN [ent |-> e, outcome |-> "KeyError"]
        ELSE LET od1 == DictWithout(otherdict, "last_run_at")
                 e1 == [e EXCEPT ![other] = od1]
             IN  IF "total_run_count" \notin DOMAIN od1
                 THEN [ent |-> e1, outcome |-> "KeyError"]
                 ELSE LET od2 == DictWithout(od1, "total_run_count")
                          e2 == [e1 EXCEPT ![other] = od2]
                      IN  [ent |-> [e2 EXCEPT ![self] = DictUpdate(e2[self], od2)],
                           outcome |-> "ok"]

-----------------------------------------------------------------------------
(* Inputs of the in-memory operations *)

EntIds == {1, 2, 3}

Secs5 == Interval(PyInt(5), PyStr(<<"minute", "s">>))
Sec1 == Interval(PyInt(1), PyStr(<<"second", "s">>))
Nightly == Crontab(PyInt(30), PyInt(2), PyInt(1), None, None)

KeyA == PyStr(<<"t:", "a">>)
KeyB == PyStr(<<"t:", "b">>)

Extra(interval, crontab) ==
    [k \in {"interval", "crontab"} |-> IF k = "interval" THEN interval ELSE crontab]

\* arguments of PeriodicTask(...); key is the value bound to the name `key`
CtorArgs(name, key, schedule, enabled, args, last_run_at, total_run_count, extrakwargs) ==
    [name |-> name, task |-> PyStr(<<"mod.f">>), schedule |-> schedule,
     enabled |-> enabled, args |-> args, kwargs |-> None, options |-> None,
     last_run_at |-> last_run_at, total_run_count |-> total_run_count,
     extrakwargs |-> extrakwargs, key |-> key]

RunCounts == {None} \cup {PyInt(n) : n \in 0..MaxRun}

ScheduleInputs ==
    {Secs5,
     PyDict([k \in {"every"} |-> PyInt(1)]),
     PyDict([k \in {"minute", "hour"} |-> PyInt(3)]),
     PyDict(EmptyMap),
     PyDict([k \in {"every", "minute"} |-> PyInt(1)]),
     None}

ExtraInputs ==
    {EmptyMap,
     [k \in {"interval"} |-> Secs5],
     Extra(Secs5, Nightly), Extra(None, None), Extra(Secs5, None), Extra(None, Nightly),
     [k \in {"owner"} |-> PyStr(<<"ops">>)]}

CtorInputs ==
    {CtorArgs(PyStr(<<"a">>), KeyA, Secs5, PyBool(TRUE), PyTuple(<<>>), None, c, EmptyMap) :
        c \in RunCounts}
    \cup {CtorArgs(PyStr(<<"a">>), KeyA, Secs5, PyBool(TRUE), PyTuple(<<>>), None, PyInt(0), x) :
        x \in ExtraInputs}
    \cup {CtorArgs(PyStr(<<"b">>), KeyB, s, PyBool(FALSE), PyTuple(<<PyInt(7)>>),
                   PyDatetime(1), PyInt(MaxRun), EmptyMap) : s \in ScheduleInputs \cup {Nightly}}

Constructed == {PeriodicTask(a) : a \in {b \in CtorInputs : ~InitRaises(b)}}

-----------------------------------------------------------------------------
(* The record text: json.dumps / json.loads with the datetime codec *)

\* DateTimeEncoder.default: a datetime becomes a tagged object, a schedule
\* object its field record
EncodeDefault(v) ==
    IF v[1] = "datetime"
    THEN PyDict([k \in {"__type__", "value"} |->
                    IF k = "__type__" THEN PyStr(<<"datetime">>) ELSE PyInt(v[2])])
    ELSE PyDict(v[2])

RECURSIVE ToJson(_)
\* the JSON value json.dumps writes for v
ToJson(v) ==
    CASE v[1] = "None" -> <<"jnull">>
      [] v[1] = "bool" -> <<"jbool", v[2]>>
      [] v[1] = "int" -> <<"jnum", v[2]>>
      [] v[1] = "str" -> <<"jstr", v[2]>>
      [] v[1] \in {"tuple", "list"} -> <<"jarr", [i \in 1..Len(v[2]) |-> ToJson(v[2][i])]>>
      [] v[1] = "dict" -> <<"jobj", [k \in DOMAIN v[2] |-> ToJson(v[2][k])]>>
      [] OTHER -> ToJson(EncodeDefault(v))

\* DateTimeDecoder's object hook: a tagged object becomes a datetime again
DecodeHook(d) ==
    IF "__type__" \in DOMAIN d /\ d["__type__"] = PyStr(<<"datetime">>) /\ "value" \in DOMAIN d
    THEN PyDatetime(d["value"][2])
    ELSE PyDict(d)

RECURSIVE FromJson(_)
\* the Python value json.loads builds from JSON value j
FromJson(j) ==
    CASE j[1] = "jnull" -> None
      [] j[1] = "jbool" -> PyBool(j[2])
      [] j[1] = "jnum" -> PyInt(j[2])
      [] j[1] = "jstr" -> PyStr(j[2])
      [] j[1] = "jarr" -> PyList([i \in 1..Len(j[2]) |-> FromJson(j[2][i])])
      [] j[1] = "jobj" -> DecodeHook([k \in DOMAIN j[2] |-> FromJson(j[2][k])])

Dumps(d) == <<"json", ToJson(PyDict(d))>>

\* json.loads raises JSONDecodeError on text that is not JSON
Decodable(text) == text[1] = "json"

Loads(text) == FromJson(text[2])

-----------------------------------------------------------------------------
(* The key-value backend *)

Nil == <<"nil">>

LiveKeys == {KeyA[2], KeyB[2]}
AllKeys == LiveKeys \cup {<<"deleted:">> \o k : k \in LiveKeys}

RdbExists(db, k) == db[k] # Nil
RdbGet(db, k) == db[k]
RdbSet(db, k, v) == [db EXCEPT ![k] = v]
RdbDelete(db, k) == [db EXCEPT ![k] = Nil]

StartsWith(s, pre) == Len(pre) <= Len(s) /\ SubSeq(s, 1, Len(pre)) = pre

\* rdb.keys(key_prefix + '*'): the existing keys that start with the prefix
RdbKeys(db, key_prefix) == {k \in DOMAIN db : db[k] # Nil /\ StartsWith(k, key_prefix)}

\* the text delete() stores under delete_key
Tombstone == <<"text", <<"deleted">>>>
\* a text that is not JSON, written by some other client of the store
Garbled == <<"text", <<"{oops">>>>

-----------------------------------------------------------------------------
(* save(): the dictionary it serializes *)

\* lines 145-152: a deep copy of __dict__, a truthy interval / crontab
\* replaced by that object's __dict__, and the key removed
SelfDict(d) ==
    LET c1 == IF "interval" \in DOMAIN d /\ Truthy(d["interval"])
              THEN DictSet(d, "interval", PyDict(d["interval"][2])) ELSE d
        c2 == IF "crontab" \in DOMAIN c1 /\ Truthy(c1["crontab"])
              THEN DictSet(c1, "crontab", PyDict(d["crontab"][2])) ELSE c1
    IN  DictWithout(c2, "key")

-----------------------------------------------------------------------------
(* Clients of the store *)

Procs == {"c1", "c2"}

NilDb == [k \in AllKeys |-> Nil]

\* A client's call: its position (pc, "done" once it has returned), its locals
\* and what it returned (ret), yielded (out), warned (warnings) or raised.
\* Bookkeeping: calls counts the calls the client has started; pre tells
\* whether the task's tombstone and live key existed when the call started;
\* alone holds while no other client has made a backend call since it
\* started; retry marks a save that directly follows, with nothing in
\* between, this client's rejected save of the same tombstoned and absent task.
IdleProc ==
    [op |-> "idle", pc |-> "idle", self |-> 0, self_dict |-> EmptyMap,
     to_be_deleted |-> FALSE, actually_deleted |-> FALSE, ret |-> FALSE,
     key_prefix |-> <<>>, tasks |-> <<>>, pos |-> 1, out |-> <<>>, warnings |-> 0,
     raised |-> "", calls |-> 0, alone |-> TRUE,
     pre |-> [tombstone |-> FALSE, live |-> FALSE], retry |-> FALSE]

\* client p moves to locals np; every other client has now been interleaved with
Others(p, np) ==
    [q \in Procs |-> IF q = p THEN np
                     ELSE IF proc[q].op = "idle" THEN proc[q]
                     ELSE [proc[q] EXCEPT !.alone = FALSE]]

MayCall(p) == proc[p].pc \in {"idle", "done"} /\ proc[p].calls < MaxOps

KeyOf(i) == ent[i]["key"][2]
DeleteKeyOf(i) == ent[i]["delete_key"][2]

Pre(db, i) == [tombstone |-> db[DeleteKeyOf(i)] # Nil, live |-> db[KeyOf(i)] # Nil]

\* the locals of a call of op that client p starts now
Fresh(p, op, pc) == [IdleProc EXCEPT !.op = op, !.pc = pc, !.calls = proc[p].calls + 1]

Rejected(l, i) ==
    /\ l.op = "save" /\ l.pc = "done" /\ l.self = i /\ l.alone
    /\ l.pre = [tombstone |-> TRUE, live |-> FALSE] /\ ~l.ret

-----------------------------------------------------------------------------
(* save *)

\* save() that rejects a tombstoned, removed task without clearing the tombstone
SaveOutcomeKeepsTombstone(db, l, key, delete_key) ==
    IF l.actually_deleted
    THEN [rdb |-> db, ret |-> FALSE]
    ELSE IF ~l.to_be_deleted
    THEN [rdb |-> RdbSet(db, key, Dumps(l.self_dict)), ret |-> TRUE]
    ELSE [rdb |-> db, ret |-> FALSE]

\* save() that removes the live key when it finds the task tombstoned
SaveOutcomeCompletesDelete(db, l, key, delete_key) ==
    IF l.actually_deleted
    THEN [rdb |-> RdbDelete(db, delete_key), ret |-> FALSE]
    ELSE IF ~l.to_be_deleted
    THEN [rdb |-> RdbSet(db, key, Dumps(l.self_dict)), ret |-> TRUE]
    ELSE [rdb |-> RdbDelete(db, key), ret |-> FALSE]

\* save() that writes only when the live key does not exist yet
SaveOutcomeCreateOnly(db, l, key, delete_key) ==
    IF l.actually_deleted
    THEN [rdb |-> RdbDelete(db, delete_key), ret |-> FALSE]
    ELSE IF ~l.to_be_deleted /\ ~RdbExists(db, key)
    THEN [rdb |-> RdbSet(db, key, Dumps(l.self_dict)), ret |-> TRUE]
    ELSE [rdb |-> db, ret |-> FALSE]

\* save() that, after clearing the tombstone of a removed task, writes the
\* record all the same
SaveOutcomeWritesAfterCleanup(db, l, key, delete_key) ==
    IF l.actually_deleted
    THEN [rdb |-> RdbSet(RdbDelete(db, delete_key), key, Dumps(l.self_dict)), ret |-> FALSE]
    ELSE IF ~l.to_be_deleted
    THEN [rdb |-> RdbSet(db, key, Dumps(l.self_dict)), ret |-> TRUE]
    ELSE [rdb |-> db, ret |-> FALSE]

\* lines 157-165: the store save() leaves and the value it returns
SaveOutcome(db, l, key, delete_key) ==
    IF l.actually_deleted
    THEN [rdb |-> RdbDelete(db, delete_key), ret |-> FALSE]
    ELSE IF ~l.to_be_deleted
    THEN [rdb |-> RdbSet(db, key, Dumps(l.self_dict)), ret |-> TRUE]
    ELSE [rdb |-> db, ret |-> FALSE]

\* line 154: to_be_deleted
ToBeDeleted(db, delete_key) == RdbExists(db, delete_key)

\* lines 155-156: actually_deleted
ActuallyDeleted(db, l, key) == ~RdbExists(db, BytesToStr(key)) /\ l.to_be_deleted

\* save() that assigns the interval / crontab mappings to the task itself
\* (self.interval = ...) instead of to its copy
SaveCheckTombstoneConvertsSelf(p, i) ==
    /\ MayCall(p)
    /\ proc' = Others(p, [Fresh(p, "save", "155") EXCEPT
                              !.self = i,
                              !.self_dict = SelfDict(ent[i]),
                              !.to_be_deleted = ToBeDeleted(rdb, DeleteKeyOf(i)),
                              !.pre = Pre(rdb, i),
                              !.retry = Rejected(proc[p], i)])
    /\ ent' = [ent EXCEPT ![i] = DictSet(SelfDict(ent[i]), "key", ent[i]["key"])]
    /\ UNCHANGED <<res, rdb>>

\* lines 145-154: build self_dict, then read whether the tombstone exists
SaveCheckTombstone(p, i) ==
    /\ MayCall(p)
    /\ proc' = Others(p, [Fresh(p, "save", "155") EXCEPT
                              !.self = i,
                              !.self_dict = SelfDict(ent[i]),
                              !.to_be_deleted = ToBeDeleted(rdb, DeleteKeyOf(i)),
                              !.pre = Pre(rdb, i),
                              !.retry = Rejected(proc[p], i)])
    /\ UNCHANGED <<ent, res, rdb>>

\* lines 155-156
SaveCheckKey(p) ==
    /\ proc[p].op = "save" /\ proc[p].pc = "155"
    /\ proc' = Others(p, [proc[p] EXCEPT !.pc = "157",
                              !.actually_deleted = ActuallyDeleted(rdb, proc[p], KeyOf(proc[p].self))])
    /\ UNCHANGED <<ent, res, rdb>>

\* lines 157-165
SaveFinish(p) ==
    /\ proc[p].op = "save" /\ proc[p].pc = "157"
    /\ LET o == SaveOutcome(rdb, proc[p], KeyOf(proc[p].self), DeleteKeyOf(proc[p].self))
       IN  /\ rdb' = o.rdb
           /\ proc' = Others(p, [proc[p] EXCEPT !.pc = "done", !.ret = o.ret])
    /\ UNCHANGED <<ent, res>>

-----------------------------------------------------------------------------
(* delete *)

\* delete() that removes the key before it writes the tombstone
DeleteFirstRemovesKey(db, key, delete_key) == RdbDelete(db, key)

\* line 140
DeleteFirst(db, key, delete_key) == RdbSet(db, delete_key, Tombstone)

\* line 141
DeleteSecond(db, key, delete_key) == RdbDelete(db, key)

DeleteSetTombstone(p, i) ==
    /\ MayCall(p)
    /\ rdb' = DeleteFirst(rdb, KeyOf(i), DeleteKeyOf(i))
    /\ proc' = Others(p, [Fresh(p, "delete", "141") EXCEPT !.self = i, !.pre = Pre(rdb, i)])
    /\ UNCHANGED <<ent, res>>

DeleteRemoveKey(p) ==
    /\ proc[p].op = "delete" /\ proc[p].pc = "141"
    /\ rdb' = DeleteSecond(rdb, KeyOf(proc[p].self), DeleteKeyOf(proc[p].self))
    /\ proc' = Others(p, [proc[p] EXCEPT !.pc = "done"])
    /\ UNCHANGED <<ent, res>>

-----------------------------------------------------------------------------
(* get_all_as_dict *)

Prefixes == {<<"t:">>, <<>>}

\* the orders in which rdb.keys may return the set of keys S
Orders(S) == {o \in [1..Cardinality(S) -> S] : \A i, j \in DOMAIN o : o[i] = o[j] => i = j}

\* the loop without its except clause: bad JSON ends the enumeration
VisitNoExcept(db, l, task_key) ==
    LET text == RdbGet(db, task_key)
    IN  IF text = Nil
        THEN [out |-> l.out, warnings |-> l.warnings, raised |-> "TypeError"]
        ELSE IF ~Decodable(text)
        THEN [out |-> l.out, warnings |-> l.warnings, raised |-> "JSONDecodeError"]
        ELSE [out |-> Append(l.out, PyDict(DictSet(Loads(text)[2], "key", PyStr(task_key)))),
              warnings |-> l.warnings, raised |-> ""]

\* lines 128-136 for one task_key: what is yielded, warned or raised
Visit(db, l, task_key) ==
    LET text == RdbGet(db, task_key)
    IN  IF text = Nil
        THEN [out |-> l.out, warnings |-> l.warnings, raised |-> "TypeError"]
        ELSE IF ~Decodable(text)
        THEN [out |-> l.out, warnings |-> l.warnings + 1, raised |-> ""]
        ELSE [out |-> Append(l.out, PyDict(DictSet(Loads(text)[2], "key", PyStr(task_key)))),
              warnings |-> l.warnings, raised |-> ""]

\* line 126; a generator over no keys is exhausted at once
ListKeys(p, key_prefix) ==
    /\ MayCall(p)
    /\ \E tasks \in Orders(RdbKeys(rdb, key_prefix)) :
          proc' = Others(p, [Fresh(p, "list", IF tasks = <<>> THEN "done" ELSE "127") EXCEPT
                                 !.key_prefix = key_prefix, !.tasks = tasks])
    /\ UNCHANGED <<ent, res, rdb>>

\* lines 127-136: one iteration of the loop
ListVisit(p) ==
    /\ proc[p].op = "list" /\ proc[p].pc = "127"
    /\ LET l == proc[p]
           v == Visit(rdb, l, l.tasks[l.pos])
       IN  proc' = Others(p, [l EXCEPT !.pos = @ + 1, !.out = v.out, !.warnings = v.warnings,
                                       !.raised = v.raised,
                                       !.pc = IF v.raised # "" \/ l.pos = Len(l.tasks)
                                              THEN "done" ELSE "127"])
    /\ UNCHANGED <<ent, res, rdb>>

-----------------------------------------------------------------------------
(* The store protocol: clients save and delete tasks concurrently *)

NoRes ==
    [n |-> 0, op |-> "none", self |-> 0, other |-> 0, outcome |-> "ok",
     arg |-> None, value |-> None]

\* the tasks the clients hold: two under one key (the second carrying both an
\* interval and a crontab), one under another key
StoreInputs ==
    <<CtorArgs(PyStr(<<"a">>), KeyA, Secs5, PyBool(TRUE), PyTuple(<<>>), None, PyInt(0),
               Extra(Secs5, None)),
      CtorArgs(PyStr(<<"a">>), KeyA, Nightly, PyBool(TRUE), PyTuple(<<>>), None, PyInt(MaxRun),
               Extra(Secs5, Nightly)),
      CtorArgs(PyStr(<<"b">>), KeyB, Nightly, PyBool(FALSE), PyTuple(<<PyInt(7)>>),
               PyDatetime(1), PyInt(MaxRun), EmptyMap)>>

StoreTasks == [i \in EntIds |-> PeriodicTask(StoreInputs[i])]

Init ==
    /\ ent = StoreTasks
    /\ res = NoRes
    /\ rdb \in {db \in [AllKeys -> {Nil, Garbled}] : \A k \in AllKeys \ LiveKeys : db[k] = Nil}
    /\ proc = [p \in Procs |-> IdleProc]

Next ==
    \/ \E p \in Procs, i \in EntIds : SaveCheckTombstone(p, i)
    \/ \E p \in Procs : SaveCheckKey(p)
    \/ \E p \in Procs : SaveFinish(p)
    \/ \E p \in Procs, i \in EntIds : DeleteSetTombstone(p, i)
    \/ \E p \in Procs : DeleteRemoveKey(p)

Spec == Init /\ [][Next]_vars

-----------------------------------------------------------------------------
(* Listing: one client enumerates while another saves and deletes *)

ListNext ==
    \/ \E key_prefix \in Prefixes : ListKeys("c1", key_prefix)
    \/ ListVisit("c1")
    \/ \E i \in EntIds : SaveCheckTombstone("c2", i)
    \/ SaveCheckKey("c2")
    \/ SaveFinish("c2")
    \/ \E i \in EntIds : DeleteSetTombstone("c2", i)
    \/ DeleteRemoveKey("c2")

ListSpec == Init /\ [][ListNext]_vars

-----------------------------------------------------------------------------
(* The in-memory operations on tasks built by the constructor *)

Called(op, self, other, outcome) ==
    [n |-> res.n + 1, op |-> op, self |-> self, other |-> other, outcome |-> outcome,
     arg |-> None, value |-> None]

\* a call on argument arg returned value
Returned(op, arg, value) ==
    [Called(op, 0, 0, "ok") EXCEPT !.arg = arg, !.value = value]

Clean(i) ==
    /\ res.n < MaxCalls
    /\ res' = Called("clean", i, i, clean(ent[i]))
    /\ UNCHANGED <<ent, rdb, proc>>

FromDict(i, j) ==
    /\ res.n < MaxCalls
    /\ LET r == from_dict(ent, i, j)
       IN  /\ ent' = r.ent
           /\ res' = Called("from_dict", i, j, r.outcome)
    /\ UNCHANGED <<rdb, proc>>

\* task.schedule = schedule
SetSchedule(i, schedule) ==
    /\ res.n < MaxCalls
    /\ IF SetScheduleRaises(schedule)
       THEN /\ ent' = ent
            /\ res' = [Called("set_schedule", i, i, "Exception") EXCEPT !.arg = schedule]
       ELSE /\ ent' = [ent EXCEPT ![i] = set_schedule(ent[i], schedule)]
            /\ res' = [Called("set_schedule", i, i, "ok") EXCEPT !.arg = schedule]
    /\ UNCHANGED <<rdb, proc>>

\* the values assigned to task.schedule: the constructor's, another pre-built
\* schedule and a mapping naming both Interval fields
SetScheduleInputs ==
    ScheduleInputs
    \cup {Nightly, PyDict([every |-> PyInt(2), period |-> PyStr(<<"hour", "s">>)])}

EntityInit ==
    /\ ent \in {e \in [EntIds -> Constructed \cup {StoreTasks[2]}] :
                    e[2] = StoreTasks[2] /\ e[3] = StoreTasks[3]}
    /\ res = NoRes
    /\ rdb = NilDb
    /\ proc = [p \in Procs |-> IdleProc]

EntityNext ==
    \/ \E i \in EntIds : Clean(i)
    \/ \E i, j \in EntIds : FromDict(i, j)
    \/ \E i \in EntIds, schedule \in SetScheduleInputs : SetSchedule(i, schedule)

EntitySpec == EntityInit /\ [][EntityNext]_vars

-----------------------------------------------------------------------------
(* The display strings of schedules built by their constructors *)

\* keyword arguments of Crontab(...); a blank is the token " "
CrontabInputs ==
    {PyDict(m) : m \in
        [minute : {PyInt(0), PyInt(30), None, PyStr(<<"*", "/", "15">>)},
         hour : {PyInt(0), PyInt(2)},
         day_of_week : {None, PyInt(0), PyInt(1), PyStr(<<>>), PyStr(<<"1", ",", " ", "2">>)},
         day_of_month : {None, PyInt(15)},
         month_of_year : {None, PyStr(<<"*">>)}]}
    \cup {PyDict(EmptyMap)}

\* keyword arguments of Interval(...)
IntervalInputs ==
    {PyDict(m) : m \in
        [every : {PyInt(n) : n \in 1..MaxEvery},
         period : {PyStr(<<"second", "s">>), PyStr(<<"minute", "s">>), PyStr(<<"hour", "s">>)}]}
    \cup {PyDict([k \in {"every"} |-> PyInt(n)]) : n \in 1..MaxEvery}

\* unicode(Crontab(**m))
DisplayCrontab(m) ==
    /\ res.n < MaxCalls
    /\ res' = Returned("Crontab.__unicode__", m, CrontabUnicode(CrontabFrom(m)))
    /\ UNCHANGED <<ent, rdb, proc>>

\* unicode(Interval(**m))
DisplayInterval(m) ==
    /\ res.n < MaxCalls
    /\ res' = Returned("Interval.__unicode__", m, IntervalUnicode(IntervalFrom(m)))
    /\ UNCHANGED <<ent, rdb, proc>>

DisplayInit ==
    /\ ent = StoreTasks
    /\ res = NoRes
    /\ rdb = NilDb
    /\ proc = [p \in Procs |-> IdleProc]

DisplayNext ==
    \/ \E m \in CrontabInputs : DisplayCrontab(m)
    \/ \E m \in IntervalInputs : DisplayInterval(m)

DisplaySpec == DisplayInit /\ [][DisplayNext]_vars

-----------------------------------------------------------------------------
(* Race: one save and one delete of the same task name run concurrently;   *)
(* once both have returned, the saving client saves once more.             *)

SameName(i, j) == ent[i]["name"] = ent[j]["name"]

\* the task in play, once either client has named one
RaceTask(i) ==
    /\ proc["c1"].self # 0 => SameName(i, proc["c1"].self)
    /\ proc["c2"].self # 0 => SameName(i, proc["c2"].self)

RaceMaySave(i) ==
    /\ RaceTask(i)
    /\ \/ proc["c1"].calls = 0
       \/ proc["c1"].calls = 1 /\ proc["c1"].pc = "done" /\ proc["c2"].pc = "done"

RaceMayDelete(i) == RaceTask(i) /\ proc["c2"].calls = 0

RaceNext ==
    \/ \E i \in EntIds : RaceMaySave(i) /\ SaveCheckTombstone("c1", i)
    \/ SaveCheckKey("c1")
    \/ SaveFinish("c1")
    \/ \E i \in EntIds : RaceMayDelete(i) /\ DeleteSetTombstone("c2", i)
    \/ DeleteRemoveKey("c2")

RaceSpec == Init /\ [][RaceNext]_vars

RaceDone == proc["c1"].calls = 2 /\ proc["c1"].pc = "done" /\ proc["c2"].pc = "done"

-----------------------------------------------------------------------------
(* Claims *)

SaveDone(p) == proc[p].op = "save" /\ proc[p].pc = "done"
DeleteDone(p) == proc[p].op = "delete" /\ proc[p].pc = "done"
ListDone(p) == proc[p].op = "list" /\ proc[p].pc = "done"

Record(i) == Dumps(SelfDict(ent[i]))

\* C1: a save that runs alone on a task whose tombstone exists and whose live
\* key is absent returns false, removes the tombstone and leaves the live key
\* absent; the save of the same task that follows it directly returns true
\* and leaves the task's record under the live key.
C1_SaveAfterDelete ==
    \A p \in Procs :
        LET l == proc[p]
        IN  (SaveDone(p) /\ l.alone) =>
              /\ (l.pre = [tombstone |-> TRUE, live |-> FALSE] =>
                    /\ ~l.ret
                    /\ rdb[DeleteKeyOf(l.self)] = Nil
                    /\ rdb[KeyOf(l.self)] = Nil)
              /\ (l.retry =>
                    /\ l.ret
                    /\ rdb[KeyOf(l.self)] = Record(l.self)
                    /\ rdb[DeleteKeyOf(l.self)] = Nil)

C1_Witness ==
    \E p \in Procs : SaveDone(p) /\ proc[p].alone /\ proc[p].retry /\ proc[p].ret

\* C2: once a concurrent save and delete of one task name have both returned
\* and one more save of that task has run alone, the live key is absent.
C2_DeletedWins ==
    RaceDone => rdb[KeyOf(proc["c1"].self)] = Nil

\* C3: a save that runs alone, with no delete in progress, on a task whose
\* tombstone and live key both exist completes the deletion: when it returns
\* the live key is absent.
C3_LazyCompletion ==
    \A p \in Procs :
        ( /\ SaveDone(p) /\ proc[p].alone
          /\ proc[p].pre = [tombstone |-> TRUE, live |-> TRUE]
          /\ \A q \in Procs : proc[q].pc \in {"idle", "done"} )
            => rdb[KeyOf(proc[p].self)] = Nil

SaveReturns(p) == proc[p].op = "save" /\ proc[p].pc = "157" /\ proc'[p].pc = "done"

\* client p makes one of the two reads of a save (line 154, line 155)
SaveReads(p) ==
    /\ proc'[p].op = "save" /\ proc'[p].pc \in {"155", "157"}
    /\ proc'[p].pc # proc[p].pc

\* C4: a save that read the tombstone as present and the live key as present
\* returns false, and no step of it changes any key of the store.
C4_RejectedSaveWritesNothing ==
    [][\A p \in Procs :
          /\ (SaveReturns(p) /\ proc[p].to_be_deleted /\ ~proc[p].actually_deleted)
                => (rdb' = rdb /\ ~proc'[p].ret)
          /\ (SaveReads(p) /\ RdbExists(rdb, DeleteKeyOf(proc'[p].self))
                           /\ RdbExists(rdb, KeyOf(proc'[p].self)))
                => rdb' = rdb]_vars

C4_Witness ==
    \E p \in Procs :
        /\ SaveDone(p) /\ proc[p].to_be_deleted /\ ~proc[p].actually_deleted /\ ~proc[p].ret
        /\ proc[p].alone /\ rdb[KeyOf(proc[p].self)] # Nil /\ rdb[DeleteKeyOf(proc[p].self)] # Nil

\* C5: a save that read the tombstone as absent sets the live key to the
\* task's serialized record, changes no other key (so creates no tombstone)
\* and returns true, whether or not the live key existed; run alone on a task
\* without tombstone it leaves the record under the live key and no tombstone.
C5_SaveWritesRecord ==
    [][\A p \in Procs :
          SaveReturns(p) =>
              /\ ~proc[p].to_be_deleted =>
                    /\ rdb' = [rdb EXCEPT ![KeyOf(proc[p].self)] = Record(proc[p].self)]
                    /\ proc'[p].ret
              /\ (proc[p].alone /\ ~proc[p].pre.tombstone) =>
                    /\ proc'[p].ret
                    /\ rdb'[KeyOf(proc[p].self)] = Record(proc[p].self)
                    /\ rdb'[DeleteKeyOf(proc[p].self)] = Nil]_vars

C5_Witness ==
    \E p, q \in Procs :
        /\ SaveDone(p) /\ proc[p].alone /\ ~proc[p].pre.tombstone /\ proc[p].pre.live /\ proc[p].ret
        /\ SaveDone(q) /\ ~proc[q].pre.tombstone /\ ~proc[q].pre.live /\ proc[q].ret

DeleteStarts(p) == proc[p].pc # "141" /\ proc'[p].op = "delete" /\ proc'[p].pc = "141"
DeleteReturns(p) == proc[p].op = "delete" /\ proc[p].pc = "141" /\ proc'[p].pc = "done"

\* the two writes of a delete, in their order, and the state a delete that
\* ran alone leaves
DeleteWrites(p) ==
    /\ DeleteStarts(p) =>
          rdb' = [rdb EXCEPT ![DeleteKeyOf(proc'[p].self)] = Tombstone]
    /\ DeleteReturns(p) =>
          /\ rdb' = [rdb EXCEPT ![KeyOf(proc[p].self)] = Nil]
          /\ proc[p].alone =>
                /\ rdb'[DeleteKeyOf(proc[p].self)] = Tombstone
                /\ rdb'[KeyOf(proc[p].self)] = Nil
    /\ (proc'[p].op = "delete" /\ proc'[p].pc = "done") =>
          (DeleteReturns(p) \/ proc[p].pc = "done")

-----------------------------------------------------------------------------
(* Claims about validation *)

IsSet(d, k) == k \in DOMAIN d /\ Truthy(d[k])

\* the task (or record) d sets both an interval and a crontab
HoldsBoth(d) == IsSet(d, "interval") /\ IsSet(d, "crontab")

\* d names an interval and a crontab and sets neither
HoldsNeither(d) ==
    /\ {"interval", "crontab"} \subseteq DOMAIN d
    /\ ~IsSet(d, "interval") /\ ~IsSet(d, "crontab")

HoldsExactlyOne(d) == IsSet(d, "interval") # IsSet(d, "crontab")

\* C7: a save of a task that holds both an interval and a crontab, or
\* neither, ends in ValidationError, and no live record of the store
\* describes such a task.
C7_InvalidNeverPersisted ==
    /\ \A p \in Procs :
          (SaveDone(p) /\ (HoldsBoth(ent[proc[p].self]) \/ HoldsNeither(ent[proc[p].self])))
              => proc[p].raised = "ValidationError"
    /\ \A k \in LiveKeys :
          Decodable(rdb[k]) => (~HoldsBoth(Loads(rdb[k])[2]) /\ ~HoldsNeither(Loads(rdb[k])[2]))

\* C8: clean() on a constructed task raises ValidationError when the task
\* holds both schedules or neither, returns normally when it holds exactly
\* one, and raises nothing else.
C8_CleanOutcome ==
    res.op = "clean" =>
        LET d == ent[res.self]
        IN  /\ res.outcome \in {"ok", "ValidationError"}
            /\ HoldsBoth(d) => res.outcome = "ValidationError"
            /\ HoldsNeither(d) => res.outcome = "ValidationError"
            /\ HoldsExactlyOne(d) => res.outcome = "ok"

-----------------------------------------------------------------------------
(* Claims about listing *)

\* the keys of tasks whose text decodes, in the order of tasks
Decoded(db, tasks) == SelectSeq(tasks, LAMBDA k : Decodable(db[k]))

\* C9: a listing that ran alone enumerated exactly the keys under the prefix,
\* raised nothing, yielded the decoded record of every decodable key, in
\* order and carrying its key, and warned once per undecodable record.
C9_ListSkipsCorrupt ==
    \A p \in Procs :
        LET l == proc[p]
            good == Decoded(rdb, l.tasks)
        IN  (ListDone(p) /\ l.alone) =>
              /\ l.raised = ""
              /\ {l.tasks[n] : n \in DOMAIN l.tasks} = RdbKeys(rdb, l.key_prefix)
              /\ Len(l.tasks) = Cardinality(RdbKeys(rdb, l.key_prefix))
              /\ Len(l.out) = Len(good)
              /\ \A n \in DOMAIN good :
                    /\ l.out[n][2]["key"] = PyStr(good[n])
                    /\ DictWithout(l.out[n][2], "key") = Loads(rdb[good[n]])[2]
              /\ l.warnings = Len(l.tasks) - Len(good)

\* two records under the prefix, the first read one corrupt: one is yielded
C9_Witness ==
    \E p \in Procs :
        /\ ListDone(p) /\ proc[p].alone
        /\ Len(proc[p].tasks) = 2 /\ ~Decodable(rdb[proc[p].tasks[1]])
        /\ Len(proc[p].out) = 1 /\ proc[p].warnings = 1

-----------------------------------------------------------------------------
(* Claims about from_dict *)

FromDictCall(i, j) ==
    res'.n = res.n + 1 /\ res'.op = "from_dict" /\ res'.self = i /\ res'.other = j

StatAttrs == {"last_run_at", "total_run_count"}

\* C10: from_dict(other) on a task, other being another task, leaves the
\* task's last_run_at and total_run_count as they were and gives the task
\* every other attribute of other.
C10_MergeKeepsStats ==
    [][\A i, j \in EntIds :
          (FromDictCall(i, j) /\ i # j) =>
              /\ \A k \in StatAttrs : GetAttr(ent'[i], k) = GetAttr(ent[i], k)
              /\ \A k \in DOMAIN ent[j] \ StatAttrs :
                    k \in DOMAIN ent'[i] /\ ent'[i][k] = ent[j][k]]_vars

-----------------------------------------------------------------------------
(* Claims about the record text *)

\* the mapping get_all_as_dict yields for the record save() wrote for task i,
\* were reading back the inverse of writing: the serialized dictionary with
\* the key restored
Encoded(i) == PyDict(DictSet(SelfDict(ent[i]), "key", ent[i]["key"]))

\* C11: when a save of a task has returned true and a listing then ran alone
\* over the record it wrote, the mapping the listing yields for the task's key
\* equals the attribute mapping that save serialized, with the key restored.
C11_RoundTrip ==
    \A i \in EntIds :
        ( /\ SaveDone("c2") /\ proc["c2"].ret /\ proc["c2"].self = i
          /\ ListDone("c1") /\ proc["c1"].alone /\ proc["c1"].raised = ""
          /\ rdb[KeyOf(i)] = Record(i) )
            => \A n \in DOMAIN proc["c1"].out :
                  proc["c1"].out[n][2]["key"] = ent[i]["key"]
                      => proc["c1"].out[n] = Encoded(i)

-----------------------------------------------------------------------------
(* Claims about display strings *)

\* a Crontab field as the display string shows it: '*' when unset or empty,
\* else its value without blanks
Shown(f) == IF f = None \/ f = PyStr(<<>>) THEN <<"*">> ELSE NoBlanks(Str(f))

\* C12: the display string of Crontab(**m) is its fields minute, hour,
\* day_of_week, day_of_month, month_of_year, each shown as '*' only when
\* unset or empty and else as its value, then ' (m/h/d/dM/MY)'; Crontab()
\* displays '0 0 * * * (m/h/d/dM/MY)' and Crontab(minute=30, hour=2,
\* day_of_week=1) displays '30 2 1 * * (m/h/d/dM/MY)'.
C12_CrontabDisplay ==
    res.op = "Crontab.__unicode__" =>
        LET m == res.arg
        IN  /\ res.value =
                 PyStr(Shown(Arg(m, "minute", PyInt(0))) \o <<" ">>
                       \o Shown(Arg(m, "hour", PyInt(0))) \o <<" ">>
                       \o Shown(Arg(m, "day_of_week", None)) \o <<" ">>
                       \o Shown(Arg(m, "day_of_month", None)) \o <<" ">>
                       \o Shown(Arg(m, "month_of_year", None)) \o <<" (m/h/d/dM/MY)">>)
            /\ m = PyDict(EmptyMap) =>
                 res.value = PyStr(<<"0", " ", "0", " ", "*", " ", "*", " ", "*", " (m/h/d/dM/MY)">>)
            /\ m = PyDict([minute |-> PyInt(30), hour |-> PyInt(2), day_of_week |-> PyInt(1),
                           day_of_month |-> None, month_of_year |-> None]) =>
                 res.value = PyStr(<<"30", " ", "2", " ", "1", " ", "*", " ", "*", " (m/h/d/dM/MY)">>)

-----------------------------------------------------------------------------
(* Claims about the schedule holder *)

SetScheduleCall(i) ==
    res'.n = res.n + 1 /\ res'.op = "set_schedule" /\ res'.self = i

\* the field names of a raw mapping
Fields(s) == IF s[1] = "dict" THEN DOMAIN s[2] ELSE {}

\* a raw mapping that names every and at most period besides
IntervalShaped(s) ==
    s[1] = "dict" /\ "every" \in Fields(s) /\ Fields(s) \subseteq {"every", "period"}

\* a raw mapping that names only Crontab fields
CrontabShaped(s) ==
    s[1] = "dict" /\ Fields(s) \subseteq {"minute", "hour", "day_of_week", "day_of_month",
                                          "month_of_year"}

\* C13: task.schedule = s with a pre-built Interval or Crontab stores s; with
\* an Interval-shaped mapping it stores an Interval of the mapping's fields,
\* with a Crontab-shaped one a Crontab; with anything else it raises and the
\* task keeps the schedule it held.  Nothing but the holder changes.
C13_SetSchedule ==
    [][\A i \in EntIds :
          SetScheduleCall(i) =>
              LET s == res'.arg
                  held == ent'[i]["data"]
              IN  /\ IsSchedule(s) => (res'.outcome = "ok" /\ held = s)
                  /\ IntervalShaped(s) =>
                        /\ res'.outcome = "ok" /\ held[1] = "Interval"
                        /\ \A k \in Fields(s) : held[2][k] = s[2][k]
                  /\ CrontabShaped(s) =>
                        /\ res'.outcome = "ok" /\ held[1] = "Crontab"
                        /\ \A k \in Fields(s) \cap {"minute", "hour"} : held[2][k] = s[2][k]
                  /\ (~IsSchedule(s) /\ ~IntervalShaped(s) /\ ~CrontabShaped(s)) =>
                        (res'.outcome = "Exception" /\ held = ent[i]["data"])
                  /\ ent' = [ent EXCEPT ![i] = DictSet(ent[i], "data", held)]]_vars

\* a task holding a Crontab was given the mapping {every: 1} and holds
\* Interval(1, 'seconds')
C13_Witness ==
    /\ res.op = "set_schedule" /\ res.self = 3 /\ res.n = 1
    /\ res.arg = PyDict([k \in {"every"} |-> PyInt(1)])
    /\ ent[3]["data"] = Sec1

-----------------------------------------------------------------------------
(* Claims about the storage key *)

\* C14: every task has its key equal to its name and its delete_key equal to
\* 'deleted:' followed by its key.
C14_KeyIsName ==
    \A i \in EntIds :
        /\ ent[i]["key"] = ent[i]["name"]
        /\ ent[i]["delete_key"] = PyStr(<<"deleted:">> \o ent[i]["key"][2])


\* C15: the display string of Interval(**m) with every = n >= 1 and period p
\* ending in 's' is 'every ' and p without that 's' when n = 1, and
\* 'every n p' when n > 1; Interval(1, 'seconds') displays 'every second'
\* and Interval(5, 'minutes') displays 'every 5 minutes'.
C15_IntervalDisplay ==
    res.op = "Interval.__unicode__" =>
        LET m == res.arg
            n == m[2]["every"][2]
            p == Arg(m, "period", PyStr(<<"second", "s">>))[2]
            stem == SubSeq(p, 1, Len(p) - 1)
        IN  /\ (n = 1 /\ p = stem \o <<"s">>) => res.value = PyStr(<<"every ">> \o stem)
            /\ n > 1 => res.value = PyStr(<<"every ", ToString(n), " ">> \o p)
            /\ m = PyDict([every |-> PyInt(1), period |-> PyStr(<<"second", "s">>)]) =>
                 res.value = PyStr(<<"every ", "second">>)
            /\ m = PyDict([every |-> PyInt(5), period |-> PyStr(<<"minute", "s">>)]) =>
                 res.value = PyStr(<<"every ", "5", " ", "minute", "s">>)

\* Interval(5, 'minutes') displayed 'every 5 minutes'
C15_Witness ==
    /\ res.op = "Interval.__unicode__"
    /\ res.arg = PyDict([every |-> PyInt(5), period |-> PyStr(<<"minute", "s">>)])
    /\ res.value = PyStr(<<"every ", "5", " ", "minute", "s">>)

-----------------------------------------------------------------------------
(* Claims about save under interleaving *)

\* the keys of the store that a step changes
Changed == {k \in AllKeys : rdb'[k] # rdb[k]}

TombstoneKeys == AllKeys \ LiveKeys

\* C16: whatever the other clients do in between, the two reads of a save
\* change nothing; the step on which it returns changes at most one key; if
\* it returns true it has set the live key to the task's record and changed
\* nothing else; if it returns false it has left the live key as it was and
\* changed at most the task's tombstone, by removing it; no step of a save
\* creates a tombstone.
C16_SaveReturnsTrueIffWrote ==
    [][\A p \in Procs :
          /\ SaveReads(p) => Changed = {}
          /\ SaveReturns(p) =>
                LET key == KeyOf(proc[p].self)
                    delete_key == DeleteKeyOf(proc[p].self)
                IN  /\ Cardinality(Changed) <= 1
                    /\ proc'[p].ret =>
                          /\ rdb'[key] = Record(proc[p].self)
                          /\ Changed \subseteq {key}
                    /\ ~proc'[p].ret =>
                          /\ rdb'[key] = rdb[key]
                          /\ Changed \subseteq {delete_key}
                          /\ rdb'[delete_key] \in {rdb[delete_key], Nil}
                    /\ \A k \in TombstoneKeys : rdb[k] = Nil => rdb'[k] = Nil]_vars

\* a save that another client's delete ran across returned true: its record
\* is under the live key beside the tombstone
C16_Witness ==
    \E p \in Procs :
        /\ SaveDone(p) /\ ~proc[p].alone /\ proc[p].ret /\ ~proc[p].pre.tombstone
        /\ rdb[KeyOf(proc[p].self)] = Record(proc[p].self)
        /\ rdb[DeleteKeyOf(proc[p].self)] = Tombstone

-----------------------------------------------------------------------------
(* Claims about listing beside a delete *)

\* C17: a listing raises nothing and visits every key it enumerated, also
\* when another client's delete removed one of them before it was read.
C17_ListSurvivesDelete ==
    ListDone("c1") =>
        /\ proc["c1"].raised = ""
        /\ proc["c1"].pos = Len(proc["c1"].tasks) + 1

-----------------------------------------------------------------------------
(* Frame claims *)

\* C18: from_dict(other) on a task, other being another task, leaves other
\* as it was: every attribute other had reads the same after the call.
C18_MergeLeavesOther ==
    [][\A i, j \in EntIds :
          (FromDictCall(i, j) /\ i # j) =>
              \A k \in DOMAIN ent[j] : HasAttr(ent'[j], k) /\ GetAttr(ent'[j], k) = ent[j][k]]_vars


\* client p starts a save: it has built self_dict and made its first read
SaveStarts(p) == proc[p].pc \in {"idle", "done"} /\ proc'[p].op = "save" /\ proc'[p].pc = "155"

\* C19: no step of a save, whatever it returns, changes any attribute of any
\* task in memory; the dictionary it serializes has every attribute of the
\* task but the key (an interval or crontab as that object's mapping), while
\* the task keeps its key.
C19_SaveLeavesTask ==
    [][\A p \in Procs :
          /\ (SaveReads(p) \/ SaveReturns(p)) => ent' = ent
          /\ SaveStarts(p) =>
                LET i == proc'[p].self
                    self_dict == proc'[p].self_dict
                IN  /\ DOMAIN self_dict = DOMAIN ent'[i] \ {"key"}
                    /\ "key" \in DOMAIN ent'[i]
                    /\ \A k \in DOMAIN self_dict \ {"interval", "crontab"} :
                          self_dict[k] = ent'[i][k]]_vars

\* one save has returned true and another false, and the tasks saved are as
\* they were built
C19_Witness ==
    \E p, q \in Procs :
        /\ SaveDone(p) /\ proc[p].ret /\ SaveDone(q) /\ ~proc[q].ret
        /\ ent[proc[p].self] = StoreTasks[proc[p].self]
        /\ ent[proc[q].self] = StoreTasks[proc[q].self]
        /\ IsSchedule(ent[proc[p].self]["interval"])

====
